---- MODULE Spec2Model ----
(***************************************************************************)
(* A model of google/cloud/security/iam/explain/importer/importer.py:      *)
(* ForsetiImporter.run and its _convert_* methods, over a persisted store  *)
(* of Resource, Member (principal), Role, Permission and Binding rows.     *)
(*                                                                         *)
(* Strings are sequences of tokens: 'organization/1' is                    *)
(* <<"organization", "/", "1">>, and 'user:alice' is                       *)
(* <<"user", ":", "alice">>, so that str.format and str.split are modelled *)
(* by what they do to the text.                                            *)
(***************************************************************************)
EXTENDS Integers, Sequences, FiniteSets, TLC

(* ---- bounds of the model ---- *)
MaxRecords == 5      \* records the connector yields, over all runs
MaxRuns == 2         \* runs of an importer against the same store
SlowRecord == 25     \* seconds a slow record (pull and handling) takes

(* ---- program constants ---- *)
WatchdogInterval == 10   \* seconds between two heartbeats

VARIABLES
    pc,                  \* position of run(): start, loop, commit, done, failed,
                         \* returned (from the run() of another importer class)
    error,               \* the exception that left run(), or "none"
    run,                 \* number of the current importer instance
    pulled,              \* number of records pulled from forseti_importer
    last,                \* the record this run pulled last
    resolved,            \* names of the resources this run has resolved
    moved,               \* a resource was resolved again under another parent
    resource_cache,      \* self.resource_cache: key -> [obj, full_name]
    last_watchdog_kick,  \* local last_watchdog_kick of run()
    now,                 \* time(), measured from the start of this run
    longest,             \* longest time one record of this run has taken
    status,              \* model state: PENDING, RUNNING, DONE
    model_persisted,     \* the model object is in the session
    kicks,               \* timestamps written by kick_watchdog in this run
    commits,             \* session.commit() calls of this run
    resources,           \* rows of TBL_RESOURCE
    members,             \* rows of TBL_MEMBER
    roles,               \* rows of TBL_ROLE
    permissions,         \* rows of TBL_PERMISSION
    bindings,            \* rows of TBL_BINDING, in insertion order
    importer,            \* class of the importer of this run, from by_source
    peer                 \* a second ForsetiImporter, with a session of its own

store == <<resources, members, roles, permissions, bindings>>
vars == <<pc, error, run, pulled, last, resolved, moved, resource_cache, last_watchdog_kick, now,
          longest, status, model_persisted, kicks, commits,
          resources, members, roles, permissions, bindings, importer, peer>>
others == <<importer, peer>>

(* ---- strings ---- *)
None == <<"None">>

\* '{}/{}'.format(a, b)
Format(a, b) == a \o <<"/">> \o b

\* str.split(':', 1): the index of the first ':' of s, 0 when there is none
RECURSIVE FirstColon(_, _)
FirstColon(s, i) ==
    IF i > Len(s) THEN 0
    ELSE IF s[i] = ":" THEN i
    ELSE FirstColon(s, i + 1)

\* class Member: self.type, self.name = member_name.split(':', 1)
Member(member_name) ==
    LET i == FirstColon(member_name, 1)
    IN  [type |-> SubSeq(member_name, 1, i - 1),
         name |-> SubSeq(member_name, i + 1, Len(member_name))]

(* ---- the persisted store: the session and the dao tables ---- *)
ResourceColumns ==
    [full_name |-> None, name |-> None, type |-> None, parent |-> None,
     display_name |-> None]
MemberColumns ==
    [name |-> None, type |-> None, member_name |-> None, parents |-> {}]
PermissionColumns == [name |-> None]

\* the session as a value: the rows of the five tables
Session ==
    [resources |-> resources, members |-> members, roles |-> roles,
     permissions |-> permissions, bindings |-> bindings]

Existing(rows, obj) == {r \in rows : r.name = obj.name}

\* the row an object becomes: an attribute the constructor was not given keeps
\* the value of the row it is merged into, or else the column's default
RowOf(rows, obj, columns) ==
    [c \in DOMAIN columns |->
        IF c \in DOMAIN obj THEN obj[c]
        ELSE IF Existing(rows, obj) # {}
             THEN (CHOOSE r \in Existing(rows, obj) : TRUE)[c]
             ELSE columns[c]]

\* session.merge(obj): insert, or update the row with obj's primary key (name)
Merge(rows, obj, columns) ==
    (rows \ Existing(rows, obj)) \cup {RowOf(rows, obj, columns)}

\* session.add(obj) of a new object: insert; a row with the same primary key
\* is a conflict
AddConflicts(rows, obj) == Existing(rows, obj) # {}
Add(rows, obj, columns) == rows \cup {RowOf({}, obj, columns)}

\* query(T).filter(T.name == name).one(): exactly one row, or it raises
OneFound(rows, name) == Cardinality({r \in rows : r.name = name}) = 1
One(rows, name) == CHOOSE r \in rows : r.name = name

(* ---- the model's lifecycle mutators ---- *)
set_inprogress == "RUNNING"
set_done == "DONE"
kick_watchdog(log, t) == Append(log, t)

(* ---- ForsetiImporter: the resource converters ---- *)
\* The result of a converter: the exception it raised (or "none"), the
\* session and the cache it leaves, the object it returns, and whether that
\* object is already in the session (it came out of session.merge).
Raised(e, s, cache) ==
    [err |-> e, s |-> s, cache |-> cache, obj |-> [name |-> None],
     merged |-> TRUE]
Returned(s, cache, obj, merged) ==
    [err |-> "none", s |-> s, cache |-> cache, obj |-> obj, merged |-> merged]

\* as Put, with the key stored in place of the full name
PutLocal(cache, key, obj, full_name) ==
    [k \in DOMAIN cache \cup {key} |->
        IF k = key THEN [obj |-> obj, full_name |-> key] ELSE cache[k]]

\* self.resource_cache[key] = (obj, full_name)
Put(cache, key, obj, full_name) ==
    [k \in DOMAIN cache \cup {key} |->
        IF k = key THEN [obj |-> obj, full_name |-> full_name] ELSE cache[k]]

_convert_organization(s, cache, forseti_org) ==
    LET org_name == Format(<<"organization">>, forseti_org.org_id)
        org == [full_name |-> org_name, name |-> org_name,
                type |-> <<"organization">>, parent |-> None]
    IN  Returned(s,
                 Put(Put(cache, <<"organization">>, org, org_name),
                     org_name, org, org_name),
                 org, FALSE)

_convert_folder(s, cache, forseti_folder) ==
    LET parent_type_name ==
            Format(forseti_folder.parent_type, forseti_folder.parent_id)
    IN  IF parent_type_name \notin DOMAIN cache
        THEN Raised("KeyError", s, cache)
        ELSE
        LET obj == cache[parent_type_name].obj
            full_res_name == cache[parent_type_name].full_name
            full_folder_name ==
                full_res_name \o <<"/", "folder", "/">> \o forseti_folder.folder_id
            folder_type_name == <<"folder", "/">> \o forseti_folder.folder_id
            folder == [full_name |-> full_folder_name,
                       name |-> folder_type_name,
                       type |-> <<"folder">>,
                       parent |-> obj.name,
                       display_name |-> forseti_folder.display_name]
        IN  Returned(
                [s EXCEPT !.resources = Merge(@, folder, ResourceColumns)],
                Put(cache, folder.name, folder, full_folder_name),
                folder, TRUE)

_convert_project(s, cache, forseti_project) ==
    LET parent_type_name ==
            Format(forseti_project.parent_type, forseti_project.parent_id)
    IN  IF parent_type_name \notin DOMAIN cache
        THEN Raised("KeyError", s, cache)
        ELSE
        LET obj == cache[parent_type_name].obj
            full_res_name == cache[parent_type_name].full_name
            project_name == <<"project", "/">> \o forseti_project.project_number
            full_project_name ==
                full_res_name \o <<"/", "project", "/">>
                              \o forseti_project.project_number
            project == [full_name |-> full_project_name,
                        name |-> project_name,
                        type |-> <<"project">>,
                        display_name |-> forseti_project.project_name,
                        parent |-> obj.name]
        IN  Returned(
                [s EXCEPT !.resources = Merge(@, project, ResourceColumns)],
                Put(cache, project_name, project, full_project_name),
                project, TRUE)

\* as _convert_bucket, with a bucket whose project is not in the cache
\* persisted as a root
_convert_bucket_orphan(s, cache, forseti_bucket) ==
    LET bucket_name == <<"bucket", "/">> \o forseti_bucket.bucket_id
        project_name == <<"project", "/">> \o forseti_bucket.project_number
        known == project_name \in DOMAIN cache
        full_bucket_name ==
            IF known THEN Format(cache[project_name].full_name, bucket_name)
            ELSE bucket_name
        bucket == [full_name |-> full_bucket_name,
                   name |-> bucket_name,
                   type |-> <<"bucket">>,
                   parent |-> IF known THEN cache[project_name].obj.name
                              ELSE None]
    IN  Returned([s EXCEPT !.resources = Merge(@, bucket, ResourceColumns)],
                 cache, bucket, TRUE)

_convert_bucket(s, cache, forseti_bucket) ==
    LET bucket_name == <<"bucket", "/">> \o forseti_bucket.bucket_id
        project_name == <<"project", "/">> \o forseti_bucket.project_number
    IN  IF project_name \notin DOMAIN cache
        THEN Raised("KeyError", s, cache)
        ELSE
        LET parent == cache[project_name].obj
            full_parent_name == cache[project_name].full_name
            full_bucket_name == Format(full_parent_name, bucket_name)
            bucket == [full_name |-> full_bucket_name,
                       name |-> bucket_name,
                       type |-> <<"bucket">>,
                       parent |-> parent.name]
        IN  Returned(
                [s EXCEPT !.resources = Merge(@, bucket, ResourceColumns)],
                cache, bucket, TRUE)

\* as _convert_cloudsqlinstance, with the full name composed from the
\* parent's local name
_convert_cloudsqlinstance_local(s, cache, forseti_cloudsqlinstance) ==
    LET sqlinst_name ==
            <<"cloudsqlinstance", "/">> \o forseti_cloudsqlinstance.name
        project_name ==
            <<"project", "/">> \o forseti_cloudsqlinstance.project_number
    IN  IF project_name \notin DOMAIN cache
        THEN Raised("KeyError", s, cache)
        ELSE
        LET parent == cache[project_name].obj
            full_sqlinst_name == Format(parent.name, sqlinst_name)
            sqlinst == [full_name |-> full_sqlinst_name,
                        name |-> sqlinst_name,
                        type |-> <<"cloudsqlinstance">>,
                        parent |-> parent.name]
        IN  Returned(
                [s EXCEPT !.resources = Merge(@, sqlinst, ResourceColumns)],
                cache, sqlinst, TRUE)

_convert_cloudsqlinstance(s, cache, forseti_cloudsqlinstance) ==
    LET sqlinst_name ==
            <<"cloudsqlinstance", "/">> \o forseti_cloudsqlinstance.name
        project_name ==
            <<"project", "/">> \o forseti_cloudsqlinstance.project_number
    IN  IF project_name \notin DOMAIN cache
        THEN Raised("KeyError", s, cache)
        ELSE
        LET parent == cache[project_name].obj
            full_parent_name == cache[project_name].full_name
            full_sqlinst_name == Format(full_parent_name, sqlinst_name)
            sqlinst == [full_name |-> full_sqlinst_name,
                        name |-> sqlinst_name,
                        type |-> <<"cloudsqlinstance">>,
                        parent |-> parent.name]
        IN  Returned(
                [s EXCEPT !.resources = Merge(@, sqlinst, ResourceColumns)],
                cache, sqlinst, TRUE)

(* ---- ForsetiImporter: policies, groups and memberships ---- *)
\* as MergeMembers, with the members built with an empty parents list
RECURSIVE MergeMembersOrphaned(_, _, _)
MergeMembersOrphaned(rows, member_names, i) ==
    IF i > Len(member_names) THEN rows
    ELSE LET member == Member(member_names[i])
         IN  MergeMembersOrphaned(
                 Merge(rows,
                       [name |-> Format(member.type, member.name),
                        member_name |-> member.name,
                        type |-> member.type,
                        parents |-> {}],
                       MemberColumns),
                 member_names, i + 1)

\* for member in binding.iter_members(): members.append(session.merge(...)),
\* from the i-th member string on; the rows of TBL_MEMBER it leaves
RECURSIVE MergeMembers(_, _, _)
MergeMembers(rows, member_names, i) ==
    IF i > Len(member_names) THEN rows
    ELSE LET member == Member(member_names[i])
         IN  MergeMembers(
                 Merge(rows,
                       [name |-> Format(member.type, member.name),
                        member_name |-> member.name,
                        type |-> member.type],
                       MemberColumns),
                 member_names, i + 1)

\* the names of the member rows a binding's members list holds, in order
MemberNames(member_names) ==
    [i \in 1..Len(member_names) |->
        Format(Member(member_names[i]).type, Member(member_names[i]).name)]

\* [session.merge(TBL_PERMISSION(name=p)) for p in dummy_generate_permissions()]
RECURSIVE MergePermissions(_, _)
MergePermissions(rows, perms) ==
    IF perms = {} THEN rows
    ELSE LET p == CHOOSE q \in perms : TRUE
         IN  MergePermissions(Merge(rows, [name |-> p], PermissionColumns),
                              perms \ {p})

\* as ResolveRole, without the query for a role of that name
ResolveRoleUnqueried(s, binding, perms) ==
    [s EXCEPT
        !.permissions = MergePermissions(@, perms),
        !.roles = @ \cup {[name |-> binding.role, permissions |-> perms]}]

\* the role of a binding: the one row of that name, or a new role with the
\* permissions dummy_generate_permissions() drew
RoleCreated(s, binding) == ~OneFound(s.roles, binding.role)
ResolveRole(s, binding, perms) ==
    IF RoleCreated(s, binding)
    THEN [s EXCEPT
            !.permissions = MergePermissions(@, perms),
            !.roles = @ \cup {[name |-> binding.role, permissions |-> perms]}]
    ELSE s

\* as ConvertBindings, with a binding the store already holds not added again
RECURSIVE ConvertBindingsOnce(_, _, _, _, _)
ConvertBindingsOnce(s, cache, forseti_policy, drawn, i) ==
    IF i > Len(forseti_policy.policy.bindings)
    THEN Returned(s, cache, [name |-> None], TRUE)
    ELSE
    LET binding == forseti_policy.policy.bindings[i]
        s1 == [s EXCEPT !.members = MergeMembers(@, binding.members, 1)]
        s2 == ResolveRole(s1, binding, drawn[i])
        res_name == Format(forseti_policy.res_type, forseti_policy.res_id)
    IN  IF ~OneFound(s2.resources, res_name)
        THEN Raised("NoResultFound", s2, cache)
        ELSE LET b == [resource |-> One(s2.resources, res_name).name,
                       role |-> binding.role,
                       members |-> MemberNames(binding.members)]
             IN  ConvertBindingsOnce(
                     IF \E k \in 1..Len(s2.bindings) : s2.bindings[k] = b
                     THEN s2
                     ELSE [s2 EXCEPT !.bindings = Append(@, b)],
                     cache, forseti_policy, drawn, i + 1)

\* the body of "for binding in policy.iter_bindings()", from binding i on;
\* drawn[i] is what dummy_generate_permissions() returns for binding i
RECURSIVE ConvertBindings(_, _, _, _, _)
ConvertBindings(s, cache, forseti_policy, drawn, i) ==
    IF i > Len(forseti_policy.policy.bindings)
    THEN Returned(s, cache, [name |-> None], TRUE)
    ELSE
    LET binding == forseti_policy.policy.bindings[i]
        s1 == [s EXCEPT !.members = MergeMembers(@, binding.members, 1)]
        s2 == ResolveRole(s1, binding, drawn[i])
        res_name == Format(forseti_policy.res_type, forseti_policy.res_id)
    IN  IF ~OneFound(s2.resources, res_name)
        THEN Raised("NoResultFound", s2, cache)
        ELSE ConvertBindings(
                 [s2 EXCEPT !.bindings =
                     Append(@, [resource |-> One(s2.resources, res_name).name,
                                role |-> binding.role,
                                members |-> MemberNames(binding.members)])],
                 cache, forseti_policy, drawn, i + 1)

_convert_policy(s, cache, forseti_policy, drawn) ==
    ConvertBindings(s, cache, forseti_policy, drawn, 1)

\* str.lower() of a member type
Lower(type) ==
    [i \in 1..Len(type) |->
        CASE type[i] = "USER" -> "user"
          [] type[i] = "GROUP" -> "group"
          [] OTHER -> type[i]]

\* groups = [session.merge(TBL_MEMBER(name='group/...', ...)) for group in groups]
RECURSIVE MergeGroups(_, _, _)
MergeGroups(rows, groups, i) ==
    IF i > Len(groups) THEN rows
    ELSE MergeGroups(
             Merge(rows,
                   [name |-> Format(<<"group">>, groups[i]),
                    type |-> <<"group">>,
                    member_name |-> groups[i]],
                   MemberColumns),
             groups, i + 1)

\* as _convert_membership, with the member inserted beside the row it has
_convert_membership_inserted(s, cache, forseti_membership) ==
    LET member == forseti_membership.member
        groups == forseti_membership.groups
        group_rows == MergeGroups(s.members, groups, 1)
        member_type == Lower(member.member_type)
        member_name == member.member_email
        obj == [name |-> Format(member_type, member_name),
                type |-> member_type,
                member_name |-> member_name,
                parents |-> {Format(<<"group">>, groups[i]) :
                                i \in 1..Len(groups)}]
    IN  Returned([s EXCEPT !.members = group_rows \cup {obj}],
                 cache, obj, TRUE)

\* as _convert_membership, with the groups added to the parents the member has
_convert_membership_joined(s, cache, forseti_membership) ==
    LET member == forseti_membership.member
        groups == forseti_membership.groups
        group_rows == MergeGroups(s.members, groups, 1)
        member_type == Lower(member.member_type)
        member_name == member.member_email
        named == [name |-> Format(member_type, member_name)]
        had == IF Existing(s.members, named) = {} THEN {}
               ELSE (CHOOSE row \in Existing(s.members, named) : TRUE).parents
        obj == [name |-> Format(member_type, member_name),
                type |-> member_type,
                member_name |-> member_name,
                parents |-> had \cup {Format(<<"group">>, groups[i]) :
                                         i \in 1..Len(groups)}]
    IN  Returned([s EXCEPT !.members = Merge(group_rows, obj, MemberColumns)],
                 cache, obj, TRUE)

_convert_membership(s, cache, forseti_membership) ==
    LET member == forseti_membership.member
        groups == forseti_membership.groups
        group_rows == MergeGroups(s.members, groups, 1)
        member_type == Lower(member.member_type)
        member_name == member.member_email
        obj == [name |-> Format(member_type, member_name),
                type |-> member_type,
                member_name |-> member_name,
                parents |-> {Format(<<"group">>, groups[i]) :
                                i \in 1..Len(groups)}]
    IN  Returned([s EXCEPT !.members = Merge(group_rows, obj, MemberColumns)],
                 cache, obj, TRUE)

_convert_group(s, cache, forseti_group) ==
    LET obj == [name |-> Format(<<"group">>, forseti_group.email),
                type |-> <<"group">>,
                member_name |-> forseti_group.email]
    IN  Returned([s EXCEPT !.members = Merge(@, obj, MemberColumns)],
                 cache, obj, TRUE)

(* ---- the records the inventory connector yields ---- *)
Organization(id) == [kind |-> "organizations", org_id |-> <<id>>]
Folder(id, parent_type, parent_id) ==
    [kind |-> "folders", folder_id |-> <<id>>, parent_type |-> <<parent_type>>,
     parent_id |-> <<parent_id>>, display_name |-> <<"f", id>>]
Project(number, parent_type, parent_id) ==
    [kind |-> "projects", project_number |-> <<number>>,
     parent_type |-> <<parent_type>>, parent_id |-> <<parent_id>>,
     project_name |-> <<"p", number>>]
Bucket(id, number) ==
    [kind |-> "buckets", bucket_id |-> <<id>>, project_number |-> <<number>>]
CloudSqlInstance(name, number) ==
    [kind |-> "cloudsqlinstances", name |-> <<name>>,
     project_number |-> <<number>>]
PolicyOf(res_type, res_id, bindings_) ==
    [kind |-> "policy", res_type |-> <<res_type>>, res_id |-> <<res_id>>,
     policy |-> [bindings |-> bindings_]]
Group(email) == [kind |-> "group", email |-> <<email>>]
Membership(type, email, groups_) ==
    [kind |-> "membership",
     member |-> [member_type |-> <<type>>, member_email |-> <<email>>],
     groups |-> groups_]

RoleA == <<"role/a">>
RoleB == <<"role/b">>
BindingA ==
    [role |-> RoleA,
     members |-> << <<"user", ":", "alice">>, <<"group", ":", "g1">> >>]
BindingB ==
    [role |-> RoleB, members |-> << <<"serviceAccount", ":", "x", ":", "y">> >>]

ResourceRecords ==
    { Organization("1"), Organization("2"),
      Folder("7", "organization", "1"),
      Project("4", "organization", "1"), Project("4", "organization", "2"),
      Bucket("b1", "4"), CloudSqlInstance("s1", "4") }
PolicyRecords ==
    { PolicyOf("project", "4", <<BindingA>>),
      PolicyOf("project", "4", <<BindingB, BindingA>>) }
PrincipalRecords ==
    { Group("g1"),
      Membership("USER", "alice", << <<"g1">> >>),
      Membership("USER", "alice", << <<"g1">>, <<"g2">> >>) }
OtherRecords == { [kind |-> "customer"], [kind |-> "instances"] }
NoRecord == [kind |-> "none"]
Records ==
    ResourceRecords \cup PolicyRecords \cup PrincipalRecords \cup OtherRecords

TimedRecords ==
    { Organization("1"), Project("4", "organization", "1"), Bucket("b1", "4"),
      PolicyOf("project", "4", <<BindingA>>),
      [kind |-> "customer"], [kind |-> "instances"] }

\* the kinds that are resources, and the local name 'type/id' of a record
ResourceKinds ==
    {"organizations", "folders", "projects", "buckets", "cloudsqlinstances"}
LocalName(record) ==
    CASE record.kind = "organizations" ->
            Format(<<"organization">>, record.org_id)
      [] record.kind = "folders" -> Format(<<"folder">>, record.folder_id)
      [] record.kind = "projects" ->
            Format(<<"project">>, record.project_number)
      [] record.kind = "buckets" -> Format(<<"bucket">>, record.bucket_id)
      [] record.kind = "cloudsqlinstances" ->
            Format(<<"cloudsqlinstance">>, record.name)

\* the local name of the parent a child record declares
DeclaredParent(record) ==
    IF record.kind \in {"folders", "projects"}
    THEN record.parent_type \o <<"/">> \o record.parent_id
    ELSE <<"project", "/">> \o record.project_number
ChildKinds == {"folders", "projects", "buckets", "cloudsqlinstances"}

\* what dummy_generate_permissions() can return: a set of its permission names
PermissionNames == { <<"a.b.c">> }
Draws(record) ==
    IF record.kind = "policy"
    THEN [1..Len(record.policy.bindings) -> SUBSET PermissionNames]
    ELSE {<<>>}

\* the time pulling and handling one record can take
Durations == {0, WatchdogInterval, SlowRecord}

(* ---- ForsetiImporter.run ---- *)
\* self.session.add(obj) of what a converter returned
SessionAdd(r) ==
    IF r.err # "none" \/ r.merged THEN r
    ELSE IF AddConflicts(r.s.resources, r.obj)
    THEN Raised("IntegrityError", r.s, r.cache)
    ELSE [r EXCEPT !.s.resources = Add(@, r.obj, ResourceColumns)]

HandledKinds ==
    {"organizations", "folders", "projects", "buckets", "cloudsqlinstances",
     "policy", "group", "membership"}
SkippedKinds == {"customer"}

\* as DispatchOther, with no kind skipped
DispatchOtherRaised(s, cache, record) ==
    Raised("NotImplementedError", s, cache)

\* as DispatchOther, with every kind that is not handled skipped
DispatchOtherSkipped(s, cache, record) ==
    Returned(s, cache, [name |-> None], TRUE)

\* the end of the if/elif chain: the kind that is skipped, and the else
DispatchOther(s, cache, record) ==
    IF record.kind = "customer"
    THEN Returned(s, cache, [name |-> None], TRUE)
    ELSE Raised("NotImplementedError", s, cache)

\* the if/elif chain of the loop body
Dispatch(s, cache, record, drawn) ==
    CASE record.kind = "organizations" ->
            SessionAdd(_convert_organization(s, cache, record))
      [] record.kind = "folders" ->
            SessionAdd(_convert_folder(s, cache, record))
      [] record.kind = "projects" ->
            SessionAdd(_convert_project(s, cache, record))
      [] record.kind = "buckets" ->
            SessionAdd(_convert_bucket(s, cache, record))
      [] record.kind = "cloudsqlinstances" ->
            SessionAdd(_convert_cloudsqlinstance(s, cache, record))
      [] record.kind = "policy" ->
            _convert_policy(s, cache, record, drawn)
      [] record.kind = "group" ->
            SessionAdd(_convert_group(s, cache, record))
      [] record.kind = "membership" ->
            SessionAdd(_convert_membership(s, cache, record))
      [] OTHER -> DispatchOther(s, cache, record)

\* as WatchdogDue, with the interval taken ten times too long
WatchdogDueLate(t, last_kick) == t - last_kick > 10 * WatchdogInterval

\* as WatchdogDue, due when the interval has just elapsed
WatchdogDueAtInterval(t, last_kick) == t - last_kick >= WatchdogInterval

\* "if time() - last_watchdog_kick > 10.0"
WatchdogDue(t, last_kick) == t - last_kick > WatchdogInterval

\* lines 148-155: a ForsetiImporter as __init__ leaves it, here over a
\* session and a model of its own
ForsetiImporter ==
    [pc |-> "start", error |-> "none", pulled |-> 0, last |-> NoRecord,
     resolved |-> {}, resource_cache |-> <<>>, status |-> "PENDING",
     commits |-> 0,
     session |-> [resources |-> {}, members |-> {}, roles |-> {},
                  permissions |-> {}, bindings |-> <<>>]]

Init ==
    /\ pc = "start"
    /\ error = "none"
    /\ run = 1
    /\ pulled = 0
    /\ last = NoRecord
    /\ resolved = {}
    /\ moved = FALSE
    /\ resource_cache = <<>>
    /\ last_watchdog_kick = 0
    /\ now = 0
    /\ longest = 0
    /\ status = "PENDING"
    /\ model_persisted = FALSE
    /\ kicks = <<>>
    /\ commits = 0
    /\ resources = {}
    /\ members = {}
    /\ roles = {}
    /\ permissions = {}
    /\ bindings = <<>>
    /\ importer = "ForsetiImporter"
    /\ peer = ForsetiImporter

\* as Start, without the call of set_inprogress
StartNotInProgress ==
    /\ pc = "start"
    /\ model_persisted' = TRUE
    /\ kicks' = kick_watchdog(kicks, now)
    /\ last_watchdog_kick' = now
    /\ pc' = "loop"
    /\ UNCHANGED <<error, run, pulled, last, resolved, moved, resource_cache, now,
                   longest, status, commits, store>>
    /\ UNCHANGED others

\* lines 321-325: persist the model, set it in progress, first heartbeat
Start ==
    /\ pc = "start"
    /\ model_persisted' = TRUE
    /\ status' = set_inprogress
    /\ kicks' = kick_watchdog(kicks, now)
    /\ last_watchdog_kick' = now
    /\ pc' = "loop"
    /\ UNCHANGED <<error, run, pulled, last, resolved, moved, resource_cache, now, longest,
                   commits, store>>
    /\ UNCHANGED others

\* as RaiseOut, had run() set the model done in a finally clause
RaiseOutThenDone(e) ==
    /\ pc' = "failed"
    /\ error' = e
    /\ status' = set_done
    /\ UNCHANGED <<kicks, last_watchdog_kick>>

\* an exception raised in the loop body leaves run(): the watchdog check of
\* this pass, set_done and commit are not reached
RaiseOut(e) ==
    /\ pc' = "failed"
    /\ error' = e
    /\ UNCHANGED <<status, kicks, last_watchdog_kick>>

\* lines 326-354: one pass of the loop, for a record that took d seconds
HandleRecord(record, d, drawn) ==
    /\ pc = "loop"
    /\ pulled < MaxRecords
    /\ LET r == Dispatch(Session, resource_cache, record, drawn)
           t == now + d
       IN  /\ pulled' = pulled + 1
           /\ last' = record
           /\ resolved' =
                 IF r.err = "none" /\ record.kind \in ResourceKinds
                 THEN resolved \cup {LocalName(record)} ELSE resolved
           /\ moved' =
                 \/ moved
                 \/ /\ r.err = "none" /\ record.kind \in ChildKinds
                    /\ \E row \in resources :
                          /\ row.name = LocalName(record)
                          /\ row.parent # DeclaredParent(record)
           /\ now' = t
           /\ longest' = IF d > longest THEN d ELSE longest
           /\ resources' = r.s.resources
           /\ members' = r.s.members
           /\ roles' = r.s.roles
           /\ permissions' = r.s.permissions
           /\ bindings' = r.s.bindings
           /\ resource_cache' = r.cache
           /\ IF r.err # "none"
              THEN RaiseOut(r.err)
              ELSE /\ UNCHANGED <<pc, error, status>>
                   /\ IF WatchdogDue(t, last_watchdog_kick)
                      THEN /\ kicks' = kick_watchdog(kicks, t)
                           /\ last_watchdog_kick' = t
                      ELSE UNCHANGED <<kicks, last_watchdog_kick>>
    /\ UNCHANGED <<run, model_persisted, commits>>
    /\ UNCHANGED others

\* as Exhaust, without the call of set_done
ExhaustNotDone(d) ==
    /\ pc = "loop"
    /\ now' = now + d
    /\ longest' = IF d > longest THEN d ELSE longest
    /\ pc' = "commit"
    /\ UNCHANGED <<error, run, pulled, last, resolved, moved, resource_cache,
                   last_watchdog_kick, status,
                   model_persisted, kicks, commits, store>>
    /\ UNCHANGED others

\* line 356: the stream is exhausted (the last pull took d seconds)
Exhaust(d) ==
    /\ pc = "loop"
    /\ now' = now + d
    /\ longest' = IF d > longest THEN d ELSE longest
    /\ status' = set_done
    /\ pc' = "commit"
    /\ UNCHANGED <<error, run, pulled, last, resolved, moved, resource_cache,
                   last_watchdog_kick,
                   model_persisted, kicks, commits, store>>
    /\ UNCHANGED others

\* line 357
Commit ==
    /\ pc = "commit"
    /\ commits' = commits + 1
    /\ pc' = "done"
    /\ UNCHANGED <<error, run, pulled, last, resolved, moved, resource_cache,
                   last_watchdog_kick,
                   now, longest, status, model_persisted, kicks, store>>
    /\ UNCHANGED others

\* a new ForsetiImporter over the same session and model (lines 148-155);
\* time is measured from the start of the run
NewRun ==
    /\ pc \in {"done", "failed", "returned"}
    /\ run < MaxRuns
    /\ run' = run + 1
    /\ pc' = "start"
    /\ error' = "none"
    /\ last' = NoRecord
    /\ resolved' = {}
    /\ resource_cache' = <<>>
    /\ now' = 0
    /\ last_watchdog_kick' = 0
    /\ longest' = 0
    /\ kicks' = <<>>
    /\ commits' = 0
    /\ UNCHANGED <<pulled, moved, status, model_persisted, store>>
    /\ UNCHANGED others

(* ---- the other import sources ---- *)

\* the dao's add_* helpers: each inserts one new row; a row of that name in
\* the table is a conflict. r is [err, s], the session so far.
add_resource(r, name, parent) ==
    IF r.err # "none" THEN r
    ELSE IF AddConflicts(r.s.resources, [name |-> name])
    THEN [r EXCEPT !.err = "IntegrityError"]
    ELSE [r EXCEPT !.s.resources =
             Add(@, [name |-> name, parent |-> parent], ResourceColumns)]
add_permission(r, name) ==
    IF r.err # "none" THEN r
    ELSE IF AddConflicts(r.s.permissions, [name |-> name])
    THEN [r EXCEPT !.err = "IntegrityError"]
    ELSE [r EXCEPT !.s.permissions = Add(@, [name |-> name], PermissionColumns)]
add_role(r, name, perms) ==
    IF r.err # "none" THEN r
    ELSE IF AddConflicts(r.s.roles, [name |-> name])
    THEN [r EXCEPT !.err = "IntegrityError"]
    ELSE [r EXCEPT !.s.roles = @ \cup {[name |-> name, permissions |-> perms]}]
add_member(r, name, type, parents) ==
    IF r.err # "none" THEN r
    ELSE IF AddConflicts(r.s.members, [name |-> name])
    THEN [r EXCEPT !.err = "IntegrityError"]
    ELSE [r EXCEPT !.s.members =
             Add(@, [name |-> name, type |-> type, parents |-> parents],
                 MemberColumns)]
add_binding(r, resource, role, members_) ==
    IF r.err # "none" THEN r
    ELSE [r EXCEPT !.s.bindings =
             Append(@, [resource |-> resource, role |-> role,
                        members |-> members_])]

\* as TestScenario, with db1 added under vm1
TestScenarioChained(s) ==
    LET project == <<"project">>
        instance == <<"vm1">>
        permission1 == <<"cloudsql.table.read">>
        permission2 == <<"cloudsql.table.write">>
        role1 == <<"sqlreader">>
        role2 == <<"sqlwriter">>
        group1 == <<"group1">>
        group2 == <<"group2">>
        r1 == add_resource([err |-> "none", s |-> s], project, None)
        r2 == add_resource(r1, instance, project)
        r3 == add_resource(r2, <<"db1">>, instance)
        r4 == add_permission(r3, permission1)
        r5 == add_permission(r4, permission2)
        r6 == add_role(r5, role1, {permission1})
        r7 == add_role(r6, role2, {permission1, permission2})
        r8 == add_member(r7, group1, <<"group">>, {})
        r9 == add_member(r8, group2, <<"group">>, {group1})
        r10 == add_member(r9, <<"felix">>, <<"user">>, {group2})
        r11 == add_member(r10, <<"fooba">>, <<"user">>, {group2})
        r12 == add_binding(r11, instance, role1, <<group1>>)
    IN  add_binding(r12, project, role2, <<group2>>)

\* lines 120-141: the test scenario, added to session s
TestScenario(s) ==
    LET project == <<"project">>
        instance == <<"vm1">>
        permission1 == <<"cloudsql.table.read">>
        permission2 == <<"cloudsql.table.write">>
        role1 == <<"sqlreader">>
        role2 == <<"sqlwriter">>
        group1 == <<"group1">>
        group2 == <<"group2">>
        r1 == add_resource([err |-> "none", s |-> s], project, None)
        r2 == add_resource(r1, instance, project)
        r3 == add_resource(r2, <<"db1">>, project)
        r4 == add_permission(r3, permission1)
        r5 == add_permission(r4, permission2)
        r6 == add_role(r5, role1, {permission1})
        r7 == add_role(r6, role2, {permission1, permission2})
        r8 == add_member(r7, group1, <<"group">>, {})
        r9 == add_member(r8, group2, <<"group">>, {group1})
        r10 == add_member(r9, <<"felix">>, <<"user">>, {group2})
        r11 == add_member(r10, <<"fooba">>, <<"user">>, {group2})
        r12 == add_binding(r11, instance, role1, <<group1>>)
    IN  add_binding(r12, project, role2, <<group2>>)

\* lines 360-367
Sources == {"TEST", "FORSETI", "EMPTY"}
by_source(source) ==
    CASE source = "TEST" -> "TestImporter"
      [] source = "FORSETI" -> "ForsetiImporter"
      [] source = "EMPTY" -> "EmptyImporter"

\* the caller picks the importer class of a run that has not begun
BySource(source) ==
    /\ pc = "start"
    /\ importer' = by_source(source)
    /\ UNCHANGED <<pc, error, run, pulled, last, resolved, moved, resource_cache,
                   last_watchdog_kick, now, longest, status, model_persisted,
                   kicks, commits, store, peer>>

\* as EmptyImporter_run, had it set the model done as ForsetiImporter.run does
EmptyImporter_run_done ==
    /\ importer = "EmptyImporter"
    /\ pc = "start"
    /\ status' = set_done
    /\ commits' = commits + 1
    /\ pc' = "returned"
    /\ UNCHANGED <<error, run, pulled, last, resolved, moved, resource_cache,
                   last_watchdog_kick, now, longest, model_persisted,
                   kicks, store, others>>

\* lines 103-106
EmptyImporter_run ==
    /\ importer = "EmptyImporter"
    /\ pc = "start"
    /\ commits' = commits + 1
    /\ pc' = "returned"
    /\ UNCHANGED <<error, run, pulled, last, resolved, moved, resource_cache,
                   last_watchdog_kick, now, longest, status, model_persisted,
                   kicks, store, others>>

\* lines 117-142
TestImporter_run ==
    /\ importer = "TestImporter"
    /\ pc = "start"
    /\ LET r == TestScenario(Session)
       IN  /\ resources' = r.s.resources
           /\ members' = r.s.members
           /\ roles' = r.s.roles
           /\ permissions' = r.s.permissions
           /\ bindings' = r.s.bindings
           /\ IF r.err # "none"
              THEN /\ pc' = "failed"
                   /\ error' = r.err
                   /\ UNCHANGED commits
              ELSE /\ pc' = "returned"
                   /\ commits' = commits + 1
                   /\ UNCHANGED error
    /\ UNCHANGED <<run, pulled, last, resolved, moved, resource_cache,
                   last_watchdog_kick, now, longest, status, model_persisted,
                   kicks, others>>

\* records for the runs of the FORSETI source beside the two others
SourceRecords ==
    { Organization("1"), Project("4", "organization", "1"),
      PolicyOf("project", "4", <<BindingA>>), [kind |-> "customer"] }

NextSources ==
    \/ \E source \in Sources : BySource(source)
    \/ importer = "ForsetiImporter" /\ Start
    \/ \E record \in SourceRecords :
          \E drawn \in Draws(record) : HandleRecord(record, 0, drawn)
    \/ Exhaust(0)
    \/ Commit
    \/ EmptyImporter_run
    \/ TestImporter_run
    \/ NewRun

SpecSources == Init /\ [][NextSources]_vars

(* ---- a second instance, running beside the first ---- *)

\* as PeerCache, had resource_cache been one object for all instances
SharedCache == resource_cache

\* line 153: self.resource_cache, the cache of the instance itself
PeerCache == peer.resource_cache

\* lines 321-325, for the second instance
PeerStart ==
    /\ peer.pc = "start"
    /\ peer' = [peer EXCEPT !.pc = "loop", !.status = set_inprogress]
    /\ UNCHANGED <<pc, error, run, pulled, last, resolved, moved, resource_cache,
                   last_watchdog_kick, now, longest, status, model_persisted,
                   kicks, commits, store, importer>>

\* lines 326-354, for the second instance
PeerHandleRecord(record, drawn) ==
    /\ peer.pc = "loop"
    /\ pulled + peer.pulled < MaxRecords
    /\ LET r == Dispatch(peer.session, PeerCache, record, drawn)
       IN  peer' = [peer EXCEPT
                      !.pulled = @ + 1,
                      !.last = record,
                      !.resolved =
                          IF r.err = "none" /\ record.kind \in ResourceKinds
                          THEN @ \cup {LocalName(record)} ELSE @,
                      !.session = r.s,
                      !.resource_cache = r.cache,
                      !.error = r.err,
                      !.pc = IF r.err # "none" THEN "failed" ELSE "loop"]
    /\ UNCHANGED <<pc, error, run, pulled, last, resolved, moved, resource_cache,
                   last_watchdog_kick, now, longest, status, model_persisted,
                   kicks, commits, store, importer>>

\* line 356, for the second instance
PeerExhaust ==
    /\ peer.pc = "loop"
    /\ peer' = [peer EXCEPT !.pc = "commit", !.status = set_done]
    /\ UNCHANGED <<pc, error, run, pulled, last, resolved, moved, resource_cache,
                   last_watchdog_kick, now, longest, status, model_persisted,
                   kicks, commits, store, importer>>

\* line 357, for the second instance
PeerCommit ==
    /\ peer.pc = "commit"
    /\ peer' = [peer EXCEPT !.pc = "done", !.commits = @ + 1]
    /\ UNCHANGED <<pc, error, run, pulled, last, resolved, moved, resource_cache,
                   last_watchdog_kick, now, longest, status, model_persisted,
                   kicks, commits, store, importer>>

\* the records of two runs that interleave
PeerRecords ==
    { Organization("1"), Folder("7", "organization", "1"),
      Project("4", "organization", "1"), Bucket("b1", "4"),
      CloudSqlInstance("s1", "4") }

\* the passes of the two loops in any order
NextPeers ==
    \/ Start
    \/ \E record \in PeerRecords :
          /\ pulled + peer.pulled < MaxRecords
          /\ HandleRecord(record, 0, <<>>)
    \/ Exhaust(0)
    \/ Commit
    \/ PeerStart
    \/ \E record \in PeerRecords : PeerHandleRecord(record, <<>>)
    \/ PeerExhaust
    \/ PeerCommit

SpecPeers == Init /\ [][NextPeers]_vars

\* every kind of record, each handled in no time
Next ==
    \/ Start
    \/ \E record \in Records :
          \E drawn \in Draws(record) : HandleRecord(record, 0, drawn)
    \/ Exhaust(0)
    \/ Commit
    \/ NewRun

Spec == Init /\ [][Next]_vars

\* records that take time, of a few kinds
NextTimed ==
    \/ Start
    \/ \E record \in TimedRecords, d \in Durations :
          \E drawn \in Draws(record) : HandleRecord(record, d, drawn)
    \/ \E d \in Durations : Exhaust(d)
    \/ Commit
    \/ NewRun

SpecTimed == Init /\ [][NextTimed]_vars

(* ---- the claims ---- *)

\* C1: the model status becomes DONE only in the step that leaves the loop
\* on an exhausted stream, with no record of the run having raised; once a
\* record has raised, the status is RUNNING and the run never changes it;
\* and after DONE is set the run writes no entity, status or heartbeat.
TerminalStatus ==
    /\ [][(status' = "DONE" /\ (status # "DONE" \/ pc = "loop"))
            => (pc = "loop" /\ error = "none" /\ pc' = "commit")]_vars
    /\ [](pc = "failed" => (error # "none" /\ status = "RUNNING"))
    /\ [][pc = "failed" => status' = status]_vars
    /\ [][(pc \in {"commit", "done"} /\ run' = run)
            => (status = "DONE"
                /\ UNCHANGED <<status, model_persisted, kicks, store>>)]_vars

\* C1 witness: a second run that ended DONE and committed, after a record
\* that took time
TerminalStatusWitness ==
    /\ pc = "done" /\ status = "DONE" /\ commits = 1
    /\ run = 2 /\ Len(kicks) = 2 /\ resources # {}

\* C2: a record is pulled only in a state where the model is persisted and
\* its status is RUNNING (never PENDING).
RunningBeforeFirstRecord ==
    [][pulled' # pulled => (status = "RUNNING" /\ model_persisted)]_vars

\* C2 witness: the first record of the first run has been pulled
RunningBeforeFirstRecordWitness ==
    run = 1 /\ pulled = 1 /\ last # NoRecord /\ status = "RUNNING"


\* C3: a folder, project, bucket or cloudsqlinstance record whose declared
\* parent this run has not resolved raises KeyError out of the run, and
\* the step leaves every table of the store as it was.
ParentBeforeChild ==
    [][(pulled' # pulled /\ last'.kind \in ChildKinds
            /\ DeclaredParent(last') \notin resolved)
        => (pc' = "failed" /\ error' = "KeyError" /\ UNCHANGED store)]_vars

\* C3 witness: a bucket record failed in a run that had not resolved its
\* project, although an earlier run left that project in the store
ParentBeforeChildWitness ==
    /\ pc = "failed" /\ error = "KeyError" /\ last.kind = "buckets"
    /\ DeclaredParent(last) \notin resolved
    /\ \E r \in resources : r.name = DeclaredParent(last)
    /\ \A r \in resources : r.type # <<"bucket">>

\* C7: a record whose kind is neither handled nor skipped raises
\* NotImplementedError out of the run: it is the last record the run pulls,
\* and the model status stays RUNNING.
UnknownKindFails ==
    (last.kind \notin HandledKinds \cup SkippedKinds \cup {"none"})
        => (pc = "failed" /\ error = "NotImplementedError"
            /\ status = "RUNNING")

\* C7 witness: a record of an unknown kind after a record that was handled
UnknownKindFailsWitness ==
    /\ last.kind = "instances" /\ pc = "failed" /\ resolved # {}


\* the timestamps kick_watchdog wrote, in the order written, never decrease
KicksNonDecreasing ==
    \A i \in 1..(Len(kicks) - 1) : kicks[i] <= kicks[i + 1]

\* C4, as claimed: when a run ends after T seconds, at least floor(T/I)
\* heartbeats have been written, whatever time a record takes, and their
\* timestamps never decrease.
HeartbeatFloor ==
    (pc \in {"commit", "done", "failed"})
        => (Len(kicks) >= now \div WatchdogInterval /\ KicksNonDecreasing)

\* C4, amended: T seconds into a run whose slowest record (pull and
\* handling) took D seconds, at least floor(T/(I+D)) heartbeats have been
\* written, and their timestamps never decrease.
HeartbeatFloorOfSlowest ==
    (pc # "start")
        => (Len(kicks) >= now \div (WatchdogInterval + longest)
            /\ KicksNonDecreasing)

\* C4 witness: a run with slow records that wrote heartbeats in the loop
HeartbeatFloorWitness ==
    /\ pc = "done" /\ longest = SlowRecord /\ now >= 3 * SlowRecord
    /\ Len(kicks) >= 3


\* C5: a resource record whose parent is resolved (an organization has
\* none) is resolved without error, whether or not its name is already in
\* the store, and leaves exactly one row of that name, with the parent it
\* declares.
IdempotentUpsert ==
    [][(pulled' # pulled /\ last'.kind \in ResourceKinds
            /\ (last'.kind \in ChildKinds => DeclaredParent(last') \in resolved))
        => (/\ error' = "none"
            /\ Cardinality({r \in resources' : r.name = LocalName(last')}) = 1
            /\ \A r \in resources' :
                  r.name = LocalName(last')
                    => r.parent = IF last'.kind \in ChildKinds
                                  THEN DeclaredParent(last') ELSE None)]_vars

\* the full name of every row is composed from its parent's
FullNameComposition ==
    \A r \in resources :
        IF r.type = <<"organization">>
        THEN /\ r.parent = None
             /\ r.full_name = r.name
             /\ SubSeq(r.name, 1, 2) = <<"organization", "/">>
        ELSE \E p \in resources :
                /\ p.name = r.parent
                /\ r.full_name = p.full_name \o <<"/">> \o r.name

\* C6, as claimed: after resource records handled without error (here:
\* those of a first run on an empty store), the full name of every resource
\* is that of its parent, "/", and its own local name; an organization has
\* no parent and the full name "organization/<org_id>".
FullNamesComposed ==
    (run = 1 /\ error = "none") => FullNameComposition

\* C6, amended: the same, for every store in which no resource has been
\* resolved again under a parent other than the one its row had.
FullNamesComposedUnmoved ==
    ~moved => FullNameComposition

\* C6 witness: organization 1, project 4 under it and an instance under
\* the project, with the full name organization/1/project/4 of the example
FullNamesComposedWitness ==
    /\ ~moved /\ error = "none"
    /\ \E r \in resources :
          r.full_name = <<"organization", "/", "1", "/", "project", "/", "4">>
    /\ \E r \in resources : r.type = <<"cloudsqlinstance">>

\* C9: a policy record with a binding whose resource is not in the store
\* raises a resolution error out of the run, and its step creates or
\* updates no Principal, Role, Permission or Binding.
ResourceResolvedFirst ==
    [][(pulled' # pulled /\ last'.kind = "policy"
            /\ Len(last'.policy.bindings) > 0
            /\ ~\E r \in resources :
                  r.name = last'.res_type \o <<"/">> \o last'.res_id)
        => (/\ pc' = "failed" /\ error' = "NoResultFound"
            /\ UNCHANGED <<members, roles, permissions, bindings>>)]_vars


\* the Principal a member string "type:name" names, spelled out
Spelled(member_name) ==
    CASE member_name = <<"user", ":", "alice">> ->
            [name |-> <<"user", "/", "alice">>, type |-> <<"user">>]
      [] member_name = <<"group", ":", "g1">> ->
            [name |-> <<"group", "/", "g1">>, type |-> <<"group">>]
      [] member_name = <<"serviceAccount", ":", "x", ":", "y">> ->
            [name |-> <<"serviceAccount", "/", "x", ":", "y">>,
             type |-> <<"serviceAccount">>]
SpelledNames(binding) ==
    {Spelled(binding.members[i]).name : i \in 1..Len(binding.members)}

\* C8: a policy record with one binding {role R, members} on a resource
\* that is in the store is handled without error and leaves exactly one
\* Role named R (the roles are unchanged if one existed), exactly one
\* Principal "type/name" of that type for each member (no other Principal
\* is created or changed), and one more Binding, of that resource, that
\* Role and exactly those Principals.
PolicyBindingScenario ==
    [][(pulled' # pulled /\ last'.kind = "policy"
            /\ Len(last'.policy.bindings) = 1
            /\ \E r \in resources :
                  r.name = last'.res_type \o <<"/">> \o last'.res_id)
        => LET binding == last'.policy.bindings[1]
               names == SpelledNames(binding)
           IN  /\ error' = "none"
               /\ Cardinality({r \in roles' : r.name = binding.role}) = 1
               /\ (\E r \in roles : r.name = binding.role)
                     => (roles' = roles /\ permissions' = permissions)
               /\ \A r \in roles' \ roles : r.name = binding.role
               /\ roles \subseteq roles'
               /\ \A i \in 1..Len(binding.members) :
                     /\ Cardinality({m \in members' :
                           m.name = Spelled(binding.members[i]).name}) = 1
                     /\ \A m \in members' :
                           m.name = Spelled(binding.members[i]).name
                             => m.type = Spelled(binding.members[i]).type
               /\ {m.name : m \in members'}
                     = {m.name : m \in members} \cup names
               /\ \A m \in members : m.name \notin names => m \in members'
               /\ Len(bindings') = Len(bindings) + 1
               /\ SubSeq(bindings', 1, Len(bindings)) = bindings
               /\ LET b == bindings'[Len(bindings')]
                  IN  /\ b.resource = last'.res_type \o <<"/">> \o last'.res_id
                      /\ b.role = binding.role
                      /\ {b.members[i] : i \in 1..Len(b.members)} = names
               /\ resources' = resources]_vars

\* C8 witness: the one-binding policy handled twice on project 4, the
\* second time with its Role and Principals already there
PolicyBindingScenarioWitness ==
    /\ last.kind = "policy" /\ Len(last.policy.bindings) = 1
    /\ error = "none" /\ Len(bindings) = 2 /\ Cardinality(roles) = 1

\* C10: the store holds at most one Principal of a name.
OnePrincipalPerName ==
    \A m1, m2 \in members : m1.name = m2.name => m1 = m2

\* C10 witness: a run in which group g1 has been named by a policy member,
\* by a membership record and, last, by a group record
OnePrincipalPerNameWitness ==
    /\ run = 1 /\ last = Group("g1") /\ error = "none"
    /\ \E i \in 1..Len(bindings) :
          \E j \in 1..Len(bindings[i].members) :
             bindings[i].members[j] = <<"group", "/", "g1">>
    /\ \E m \in members : <<"group", "/", "g1">> \in m.parents
    /\ Cardinality({m \in members : m.name = <<"group", "/", "g1">>}) = 1


\* C11: when a membership record has been handled, every group of its list
\* is a principal of type group, and the parents of the member are exactly
\* those groups, whatever parents the member had before.
MembershipParents ==
    [][(pulled' # pulled /\ last'.kind = "membership") =>
          LET groups == last'.groups
              group_names == {<<"group", "/">> \o groups[i] : i \in 1..Len(groups)}
              member_rows == {m \in members' :
                                 m.name = <<"user", "/">> \o last'.member.member_email}
          IN  /\ error' = "none"
              /\ \A g \in group_names :
                    \E m \in members' : m.name = g /\ m.type = <<"group">>
              /\ Cardinality(member_rows) = 1
              /\ \A m \in member_rows : m.parents = group_names]_vars

\* the member had two groups and is now left with one of them
MembershipParentsWitness ==
    /\ last.kind = "membership"
    /\ Len(last.groups) = 1
    /\ \E m \in members : m.name = <<"group", "/", "g2">>
    /\ \E m \in members : /\ m.name = <<"user", "/", "alice">>
                          /\ m.parents = {<<"group", "/", "g1">>}


\* C12: no step removes or changes a Binding the store holds; a policy record
\* handled without error adds one Binding for each entry of its bindings
\* list, in the order of the list, so the same record handled twice leaves
\* two Bindings for each entry.
BindingsAdditive ==
    [][/\ Len(bindings') >= Len(bindings)
       /\ SubSeq(bindings', 1, Len(bindings)) = bindings
       /\ (pulled' # pulled /\ last'.kind = "policy" /\ error' = "none") =>
             LET entries == last'.policy.bindings
             IN  /\ Len(bindings') = Len(bindings) + Len(entries)
                 /\ \A i \in 1..Len(entries) :
                       LET b == bindings'[Len(bindings) + i]
                       IN  /\ b.resource = last'.res_type \o <<"/">> \o last'.res_id
                           /\ b.role = entries[i].role
                           /\ {b.members[k] : k \in 1..Len(b.members)}
                                 = SpelledNames(entries[i])]_vars

\* the policy of two entries handled twice: two Bindings for each entry
BindingsAdditiveWitness ==
    /\ last.kind = "policy" /\ Len(last.policy.bindings) = 2
    /\ error = "none"
    /\ Len(bindings) = 4
    /\ bindings[1] = bindings[3] /\ bindings[2] = bindings[4]
    /\ bindings[1].role = last.policy.bindings[1].role
    /\ bindings[2].role = last.policy.bindings[2].role


\* C13: the run of the TEST source on an empty store leaves exactly 3
\* resources (the project and two children of it), 2 permissions, 2 roles
\* (the reader with one permission, the writer with both), 4 principals (two
\* groups, one inside the other, and two users inside the inner group) and 2
\* bindings, commits once and returns; the store it leaves is this one on
\* every run, as nothing of it is drawn.
TestFixture ==
    [][(importer = "TestImporter" /\ pc = "start" /\ pc' # "start"
            /\ resources = {} /\ members = {} /\ roles = {}
            /\ permissions = {} /\ bindings = <<>>)
        => /\ pc' = "returned" /\ error' = "none"
           /\ commits' = commits + 1
           /\ Cardinality(resources') = 3
           /\ {r.name : r \in {q \in resources' : q.parent = None}}
                 = {<<"project">>}
           /\ {r.name : r \in {q \in resources' : q.parent = <<"project">>}}
                 = {<<"vm1">>, <<"db1">>}
           /\ permissions' = {[name |-> <<"cloudsql.table.read">>],
                              [name |-> <<"cloudsql.table.write">>]}
           /\ roles' = {[name |-> <<"sqlreader">>,
                         permissions |-> {<<"cloudsql.table.read">>}],
                        [name |-> <<"sqlwriter">>,
                         permissions |-> {<<"cloudsql.table.read">>,
                                          <<"cloudsql.table.write">>}]}
           /\ Cardinality(members') = 4
           /\ {[name |-> m.name, type |-> m.type, parents |-> m.parents] :
                  m \in members'}
                 = {[name |-> <<"group1">>, type |-> <<"group">>, parents |-> {}],
                    [name |-> <<"group2">>, type |-> <<"group">>,
                     parents |-> {<<"group1">>}],
                    [name |-> <<"felix">>, type |-> <<"user">>,
                     parents |-> {<<"group2">>}],
                    [name |-> <<"fooba">>, type |-> <<"user">>,
                     parents |-> {<<"group2">>}]}
           /\ bindings' = <<[resource |-> <<"vm1">>, role |-> <<"sqlreader">>,
                             members |-> << <<"group1">> >>],
                            [resource |-> <<"project">>, role |-> <<"sqlwriter">>,
                             members |-> << <<"group2">> >>]>>]_vars

\* the TEST source has run on the empty store of a model and returned
TestFixtureWitness ==
    /\ importer = "TestImporter" /\ pc = "returned" /\ run = 1
    /\ commits = 1
    /\ Cardinality(resources) = 3 /\ Cardinality(members) = 4
    /\ Len(bindings) = 2

\* C20: a run of the EMPTY or of the TEST source leaves the status of the
\* model and its heartbeat as they were (a PENDING model stays PENDING); the
\* run of the EMPTY source changes no table and commits exactly once.
SourcesKeepStatus ==
    [][(importer \in {"TestImporter", "EmptyImporter"}
            /\ pc = "start" /\ pc' # "start")
        => /\ status' = status
           /\ kicks' = kicks
           /\ last_watchdog_kick' = last_watchdog_kick
           /\ model_persisted' = model_persisted
           /\ importer = "EmptyImporter" =>
                 /\ pc' = "returned" /\ error' = "none"
                 /\ commits = 0 /\ commits' = 1
                 /\ resources' = resources /\ members' = members
                 /\ roles' = roles /\ permissions' = permissions
                 /\ bindings' = bindings]_vars

\* the TEST source and then the EMPTY source have run on a model that is
\* still PENDING
SourcesKeepStatusWitness ==
    /\ importer = "EmptyImporter" /\ pc = "returned" /\ run = 2
    /\ status = "PENDING" /\ kicks = <<>>
    /\ commits = 1
    /\ Cardinality(members) = 4


\* C14 as stated: when a resource record of any kind has been handled
\* without error, the cache holds the resource under its local name
\* "type/id", with its full name. A bucket is not held.
CacheHoldsResolved ==
    [][(pulled' # pulled /\ last'.kind \in ResourceKinds /\ error' = "none")
        => /\ LocalName(last') \in DOMAIN resource_cache'
           /\ \E row \in resources' :
                 /\ row.name = LocalName(last')
                 /\ resource_cache'[LocalName(last')].full_name = row.full_name]_vars

\* C14, for the kinds that can be parents: when an organization, folder or
\* project record has been handled without error, the cache holds the
\* resource under its local name "type/id", with the full name of its row,
\* and an organization under the key "organization" as well; a bucket or a
\* cloudsqlinstance record leaves the cache as it was.
CacheHoldsParents ==
    [][(pulled' # pulled /\ last'.kind \in ResourceKinds /\ error' = "none")
        => IF last'.kind \in {"buckets", "cloudsqlinstances"}
           THEN resource_cache' = resource_cache
           ELSE LET key == CASE last'.kind = "organizations" ->
                                  <<"organization", "/">> \o last'.org_id
                             [] last'.kind = "folders" ->
                                  <<"folder", "/">> \o last'.folder_id
                             [] last'.kind = "projects" ->
                                  <<"project", "/">> \o last'.project_number
                IN  /\ key \in DOMAIN resource_cache'
                    /\ resource_cache'[key].obj.name = key
                    /\ \E row \in resources' :
                          /\ row.name = key
                          /\ resource_cache'[key].full_name = row.full_name
                    /\ last'.kind = "organizations" =>
                          /\ <<"organization">> \in DOMAIN resource_cache'
                          /\ resource_cache'[<<"organization">>]
                                = resource_cache'[key]]_vars

\* a folder, a project and a bucket of it handled: the cache holds the
\* organization under two keys, the folder and the project, not the bucket
CacheHoldsParentsWitness ==
    /\ last.kind = "buckets" /\ error = "none"
    /\ DOMAIN resource_cache =
          {<<"organization">>, <<"organization", "/", "1">>,
           <<"folder", "/", "7">>, <<"project", "/", "4">>}
    /\ resource_cache[<<"project", "/", "4">>].full_name
          = <<"organization", "/", "1", "/", "project", "/", "4">>
    /\ \E row \in resources : row.name = <<"bucket", "/", "b1">>


\* C15: a run of ForsetiImporter commits only once its status is DONE and no
\* record has raised; a run that has finished has committed exactly once,
\* and a run that is under way or has failed has not committed.
OneCommitAfterDone ==
    [][/\ (commits' # commits /\ run' = run) =>
             /\ status = "DONE" /\ status' = "DONE"
             /\ error = "none" /\ error' = "none"
             /\ commits = 0 /\ commits' = 1
       /\ pc' = "done" => commits' = 1
       /\ pc' \in {"start", "loop", "commit", "failed"} => commits' = 0]_vars

\* a run over records has finished with its one commit
OneCommitAfterDoneWitness ==
    /\ pc = "done" /\ commits = 1 /\ status = "DONE"
    /\ pulled >= 2 /\ last.kind = "policy"


\* C16: two consecutive heartbeat writes of a run are more than the interval
\* apart, a pass of the loop writes one only when more than the interval has
\* elapsed since the last, and a run that has lasted T seconds has written
\* at most 1 + floor(T / interval) heartbeats.
HeartbeatsSpaced ==
    /\ \A i \in 1..(Len(kicks) - 1) : kicks[i + 1] - kicks[i] > WatchdogInterval
    /\ Len(kicks) <= 1 + (now \div WatchdogInterval)
    /\ kicks # <<>> => /\ kicks[1] = 0
                       /\ kicks[Len(kicks)] = last_watchdog_kick

\* a pass that ended just when the interval had elapsed wrote no heartbeat,
\* a later pass wrote the second one
HeartbeatsSpacedWitness ==
    /\ Len(kicks) = 2
    /\ kicks[2] = 2 * WatchdogInterval
    /\ pulled >= 2 /\ pc = "loop"


\* C17: a policy record leaves every Principal of the store as it is, with
\* its type and its parents; the Principals it adds have names the store
\* did not hold, and no parents.
PolicyKeepsPrincipals ==
    [][(pulled' # pulled /\ last'.kind = "policy")
        => /\ \A m \in members : m \in members'
           /\ \A m \in members' \ members :
                 /\ m.parents = {}
                 /\ \A q \in members : q.name # m.name]_vars

\* a policy naming user:alice and group:g1 handled after the membership
\* that put alice into g1
PolicyKeepsPrincipalsWitness ==
    /\ last.kind = "policy" /\ error = "none"
    /\ \E i \in 1..Len(last.policy.bindings) :
          \E k \in 1..Len(last.policy.bindings[i].members) :
             last.policy.bindings[i].members[k] = <<"user", ":", "alice">>
    /\ \E m \in members : /\ m.name = <<"user", "/", "alice">>
                          /\ m.parents = {<<"group", "/", "g1">>}


\* C18: with the passes of two instances interleaved in any order, a child
\* record whose parent the instance itself has not resolved fails as
\* parent-missing, also when the other instance has resolved that parent;
\* and no pass removes a key from the cache of either.
CacheOwned ==
    [][/\ (peer'.pulled # peer.pulled /\ peer'.last.kind \in ChildKinds
              /\ DeclaredParent(peer'.last) \notin peer.resolved)
          => (peer'.error = "KeyError" /\ peer'.pc = "failed")
       /\ (pulled' # pulled /\ last'.kind \in ChildKinds
              /\ DeclaredParent(last') \notin resolved)
          => (error' = "KeyError" /\ pc' = "failed")
       /\ DOMAIN resource_cache \subseteq DOMAIN resource_cache'
       /\ DOMAIN peer.resource_cache \subseteq DOMAIN peer'.resource_cache]_vars

\* the first instance has resolved project 4 and is in its loop; the second
\* has resolved the organization only, and its bucket of project 4 failed
CacheOwnedWitness ==
    /\ pc = "loop" /\ <<"project", "/", "4">> \in resolved
    /\ <<"project", "/", "4">> \in DOMAIN resource_cache
    /\ peer.pc = "failed" /\ peer.error = "KeyError"
    /\ peer.last.kind = "buckets"
    /\ peer.resolved = {<<"organization", "/", "1">>}


\* C19: handling a customer record raises nothing and leaves the five
\* tables, the cache and the status of the model as they were; the run is
\* in its loop afterwards, ready for the next record.
CustomerDiscarded ==
    [][(pulled' # pulled /\ last'.kind = "customer")
        => /\ error' = "none" /\ pc' = "loop"
           /\ resources' = resources /\ members' = members
           /\ roles' = roles /\ permissions' = permissions
           /\ bindings' = bindings
           /\ resource_cache' = resource_cache
           /\ resolved' = resolved
           /\ status' = status /\ status = "RUNNING"
           /\ commits' = commits]_vars

\* a customer record that took long, handled after a project: the pass
\* wrote a heartbeat and the run is in its loop
CustomerDiscardedWitness ==
    /\ last.kind = "customer" /\ pc = "loop" /\ error = "none"
    /\ <<"project", "/", "4">> \in DOMAIN resource_cache
    /\ Cardinality(resources) = 2
    /\ Len(kicks) = 2 /\ kicks[2] = SlowRecord

====
